---- MODULE Spec2Model ----
(***************************************************************************)
(* Model of the mailpit client's request engine (client.go: makeRequest)  *)
(* and of the per-operation wrappers that call it (messages, views, tags, *)
(* server, chaos, send).  One call of one operation is followed from its  *)
(* parameter validation through the retry loop of makeRequest to the      *)
(* value it returns.                                                       *)
(***************************************************************************)
EXTENDS Integers, Sequences, FiniteSets, TLC

VARIABLES
    config,        \* the Config the client points to (the caller's object)
    given,         \* history: the argument NewClient was called with
    client,        \* the client struct NewClient returned (or nil)
    newErr,        \* the error NewClient returned
    constructed,   \* history: config and client when NewClient returned
    pc,            \* position of the calling goroutine
    op,            \* the operation that was called ("" before the call)
    reqValid,      \* whether http.NewRequestWithContext accepts method+URL
    attempt,       \* makeRequest's loop variable
    lastErr,       \* makeRequest's lastErr
    req,           \* the request last handed to HTTPClient.Do
    result,        \* what makeRequest returned: (resp, err)
    target,        \* the value the operation decodes the response into
    opErr,         \* the error the operation returned to its caller
    respClosed,    \* the body of the response makeRequest returned is closed
    ctxDone,       \* the caller's context is cancelled
    invocations,   \* number of calls of HTTPClient.Do
    deferred,      \* deferred resp.Body.Close() calls registered in makeRequest
    unclosed,      \* bodies of non-returned responses not yet closed
    trace,         \* history: sequence of "attempt" / "wait" events
    lastOutcome,   \* history: what the last HTTPClient.Do returned
    allRetryable,  \* history: every iteration so far ended in neterr/5xx/429
    priorRetryable, \* history: allRetryable before the last Do returned
    cancelledAt,   \* history: pc at which the context was cancelled
    invAtCancel,   \* history: invocations when the context was cancelled
    emptyRequired, \* history: required parameters the call left empty
    bodyBuf,       \* the *bytes.Buffer the operation hands to makeRequest
    calls,         \* concurrent calls on one client: each call's own frame
    errCells,      \* the storage cells that hold the calls' lastErr
    data,          \* the JSON text handed to json.Unmarshal
    al,            \* the AttachmentList decoded into
    decodeErr,     \* the error json.Unmarshal returned
    opts,          \* the *ListOptions / *SearchOptions of a listing call
    query,         \* the query argument of SearchMessages
    values,        \* the url.Values ToURLValues returned
    endpoint,      \* the endpoint a listing operation built
    parsed,        \* what url.ParseQuery makes of the endpoint's query
    smtpContainerPool, \* the test helpers' pool of mailpit containers
    smtpPoolMu,    \* the test that holds smtpPoolMu (0: nobody)
    lockScope,     \* what smtpPoolMu covers: the whole call or the init
    tests          \* the tests that use the pool: position and container

(* the client and the Config it was built from *)
clientVars == <<config, given, client, newErr, constructed>>

(* one call of one operation: its position and everything else it holds *)
frameVars == <<op, reqValid, attempt, lastErr, req, result, target, opErr,
               respClosed, ctxDone, invocations, deferred, unclosed, trace,
               lastOutcome, allRetryable, priorRetryable, cancelledAt,
               invAtCancel, emptyRequired, bodyBuf>>

callVars == <<pc, frameVars>>

(* several calls at once *)
concVars == <<calls, errCells>>

(* decoding of types.go values *)
decodeVars == <<data, al, decodeErr>>

queryVars == <<opts, query, values, endpoint, parsed>>

typesVars == <<decodeVars, queryVars>>

(* the container pool of the test helpers *)
poolVars == <<smtpContainerPool, smtpPoolMu, lockScope, tests>>

vars == <<clientVars, callVars, concVars, typesVars, poolVars>>

---------------------------------------------------------------------------
(* Bounds *)

MaxRetriesBound == 2

(* time.Duration values of RetryDelay: 0 (timer fires at once) and a
   positive delay *)
RetryDelays == {0, 1}

(* HTTP status codes a transport can answer with, around every boundary
   the code tests *)
Statuses == {200, 299, 304, 400, 404, 429, 499, 500, 599}

(* raw bodies of non-2xx responses *)
ErrBodies == {"e1", "e2"}

(* bodies of 2xx responses: no bytes, JSON of the expected shape, bytes
   that are not JSON, JSON of another shape *)
OkBodies == {"empty", "json", "garbage", "mismatch"}

(* identifier / query / tag arguments: empty, well-formed, and one that
   does not survive url.Parse when placed raw into the path *)
IDs == {"", "msg1", "%zz"}

(* request-body arguments: nil pointer / empty list, or a value *)
BodyArgs == {"nil", "value"}

---------------------------------------------------------------------------
(* net/http status constants used by makeRequest *)

StatusOK == 200
StatusMultipleChoices == 300
StatusBadRequest == 400
StatusTooManyRequests == 429
StatusInternalServerError == 500

---------------------------------------------------------------------------
(* Errors.  kind "nil" is the nil error, kind "context" is the plain value
   of ctx.Err() (context.Canceled / DeadlineExceeded, not an *Error), kind
   "Error" is a *Error of errors.go. *)

NoErr == [kind |-> "nil", Type |-> "", Message |-> "", Cause |-> "",
          StatusCode |-> 0, Response |-> ""]

CtxErr == [kind |-> "context", Type |-> "", Message |-> "", Cause |-> "",
           StatusCode |-> 0, Response |-> ""]

ErrorTypeConfig == "config"
ErrorTypeNetwork == "network"
ErrorTypeRequest == "request"
ErrorTypeResponse == "response"
ErrorTypeAPI == "api"
ErrorTypeValidation == "validation"

ErrorTypes ==
    {ErrorTypeConfig, ErrorTypeNetwork, ErrorTypeRequest, ErrorTypeResponse,
     ErrorTypeAPI, ErrorTypeValidation}

NewValidationError(message) ==
    [kind |-> "Error", Type |-> ErrorTypeValidation, Message |-> message,
     Cause |-> "", StatusCode |-> 0, Response |-> ""]

RequestError ==
    [kind |-> "Error", Type |-> ErrorTypeRequest,
     Message |-> "failed to create request", Cause |-> "url",
     StatusCode |-> 0, Response |-> ""]

(* the transport's error stored as it came, not wrapped in an *Error *)
NetworkErrorUnwrapped(cause) ==
    [kind |-> "raw", Type |-> "", Message |-> "", Cause |-> cause,
     StatusCode |-> 0, Response |-> ""]

NetworkError(cause) ==
    [kind |-> "Error", Type |-> ErrorTypeNetwork,
     Message |-> "request failed", Cause |-> cause,
     StatusCode |-> 0, Response |-> ""]

APIError(status, body) ==
    [kind |-> "Error", Type |-> ErrorTypeAPI,
     Message |-> "API request failed with status", Cause |-> "",
     StatusCode |-> status, Response |-> body]

---------------------------------------------------------------------------
(* What HTTPClient.Do returns: an error (err # "") or a response. *)

NoResp == [err |-> "", status |-> 0, body |-> ""]

NoOutcome == [err |-> "none", status |-> 0, body |-> ""]

TransportError(cause) == [err |-> cause, status |-> 0, body |-> ""]

Outcomes ==
    {TransportError("io")}
    \cup {[err |-> "", status |-> s, body |-> b] :
            s \in {t \in Statuses : t >= 200 /\ t < 300}, b \in OkBodies}
    \cup {[err |-> "", status |-> s, body |-> b] :
            s \in {t \in Statuses : ~(t >= 200 /\ t < 300)}, b \in ErrBodies}

---------------------------------------------------------------------------
(* The operations of the Client interface.  For each: the parameter checks
   it performs before anything else, in source order (parameter, message);
   whether its identifier reaches the URL through url.QueryEscape; and what
   it does with a successful response ("parse": parseResponse, "raw":
   io.ReadAll of the body, "close": deferred Body.Close only). *)

MsgID == <<"id1", "message ID cannot be empty">>
PartID == <<"id2", "part ID cannot be empty">>
AttID == <<"id2", "attachment ID cannot be empty">>
Query == <<"id1", "search query cannot be empty">>
Tag == <<"id1", "tag cannot be empty">>

ReleaseData == <<"body", "release data cannot be nil">>
SendBody == <<"body", "message cannot be nil">>
MessageIDs == <<"body", "message IDs cannot be empty">>

(* ids: the identifier parameters of the signature (message id, part or
   attachment id, tag, query); body: "required" when the signature takes a
   request body the API cannot do without, "optional" when nil / empty is
   a legal value (options, SetTags' list, SetChaosConfig's triggers),
   "none" otherwise; checks: the checks of the function body *)
Op(ids, body, checks, escaped, finish) ==
    [ids |-> ids, body |-> body, checks |-> checks, escaped |-> escaped,
     finish |-> finish]

(* messages: list, get, delete, search, mark, release *)
MessageOperations ==
    [ ListMessages |->
          Op(<<>>, "optional", <<>>, TRUE, "parse"),
      GetMessage |->
          Op(<<"id1">>, "none", <<MsgID>>, FALSE, "parse"),
      GetMessageSource |->
          Op(<<"id1">>, "none", <<MsgID>>, FALSE, "raw"),
      DeleteMessage |->
          Op(<<"id1">>, "none", <<MsgID>>, FALSE, "close"),
      DeleteAllMessages |->
          Op(<<>>, "none", <<>>, TRUE, "close"),
      SearchMessages |->
          Op(<<"id1">>, "optional", <<Query>>, TRUE, "parse"),
      GetMessageAttachment |->
          Op(<<"id1", "id2">>, "none", <<MsgID, AttID>>, FALSE, "raw"),
      MarkMessageRead |->
          Op(<<"id1">>, "none", <<MsgID>>, FALSE, "close"),
      MarkMessageUnread |->
          Op(<<"id1">>, "none", <<MsgID>>, FALSE, "close"),
      GetMessageHeaders |->
          Op(<<"id1">>, "none", <<MsgID>>, FALSE, "parse"),
      GetMessageHTMLCheck |->
          Op(<<"id1">>, "none", <<MsgID>>, FALSE, "parse"),
      GetMessageLinkCheck |->
          Op(<<"id1">>, "none", <<MsgID>>, FALSE, "parse"),
      GetMessageSpamAssassinCheck |->
          Op(<<"id1">>, "none", <<MsgID>>, FALSE, "parse"),
      GetMessagePart |->
          Op(<<"id1", "id2">>, "none", <<MsgID, PartID>>, FALSE, "raw"),
      GetMessagePartThumbnail |->
          Op(<<"id1", "id2">>, "none", <<MsgID, PartID>>, FALSE, "raw"),
      ReleaseMessage |->
          Op(<<"id1">>, "required", <<MsgID, ReleaseData>>, FALSE, "close"),
      DeleteSearchResults |->
          Op(<<"id1">>, "none", <<Query>>, TRUE, "close") ]

(* send *)
SendOperations ==
    [ SendMessage |->
          Op(<<>>, "required", <<SendBody>>, TRUE, "parse") ]

(* tags *)
TagOperations ==
    [ SetTags |->
          Op(<<>>, "optional", <<>>, TRUE, "parse"),
      SetMessageTags |->
          Op(<<"id1">>, "required", <<Tag, MessageIDs>>, FALSE, "close"),
      DeleteTag |->
          Op(<<"id1">>, "none", <<Tag>>, FALSE, "close") ]

(* views *)
ViewOperations ==
    [ GetMessageHTML |->
          Op(<<"id1">>, "none", <<MsgID>>, FALSE, "raw"),
      GetMessageText |->
          Op(<<"id1">>, "none", <<MsgID>>, FALSE, "raw"),
      GetMessageRaw |->
          Op(<<"id1">>, "none", <<MsgID>>, FALSE, "raw"),
      GetMessagePartHTML |->
          Op(<<"id1", "id2">>, "none", <<MsgID, PartID>>, FALSE, "raw"),
      GetMessagePartText |->
          Op(<<"id1", "id2">>, "none", <<MsgID, PartID>>, FALSE, "raw"),
      GetMessageEvents |->
          Op(<<"id1">>, "none", <<MsgID>>, FALSE, "parse") ]

(* server *)
ServerOperations ==
    [ GetServerInfo |->
          Op(<<>>, "none", <<>>, TRUE, "parse"),
      HealthCheck |->
          Op(<<>>, "none", <<>>, TRUE, "close"),
      GetStats |->
          Op(<<>>, "none", <<>>, TRUE, "parse"),
      GetTags |->
          Op(<<>>, "none", <<>>, TRUE, "parse"),
      Ping |->
          Op(<<>>, "none", <<>>, TRUE, "close"),
      GetWebUIConfig |->
          Op(<<>>, "none", <<>>, TRUE, "parse") ]

(* chaos *)
ChaosOperations ==
    [ GetChaosConfig |->
          Op(<<>>, "none", <<>>, TRUE, "parse"),
      SetChaosConfig |->
          Op(<<>>, "optional", <<>>, TRUE, "parse") ]

Operations ==
    MessageOperations @@ SendOperations @@ TagOperations @@ ViewOperations
        @@ ServerOperations @@ ChaosOperations

OpNames == DOMAIN Operations

(* the arguments of a call: two identifier positions and a body position;
   an operation reads only the positions it declares *)
Args == [id1 : IDs, id2 : IDs, body : BodyArgs]

(* the zero value of a parameter: "" for a string, nil / empty list for a
   request body *)
IsEmptyArg(args, param) ==
    IF param = "body" THEN args.body = "nil" ELSE args[param] = ""

(* the checks at the head of every operation, as one pass over the
   operation's list: the message of the first check that fails, "" if all
   pass *)
RECURSIVE FirstFailed(_, _, _)
FirstFailed(checks, args, i) ==
    IF i > Len(checks) THEN ""
    ELSE IF IsEmptyArg(args, checks[i][1]) THEN checks[i][2]
    ELSE FirstFailed(checks, args, i + 1)

ValidateOnlyFirst(o, args) ==
    IF Len(Operations[o].checks) >= 1
          /\ IsEmptyArg(args, Operations[o].checks[1][1])
    THEN Operations[o].checks[1][2] ELSE ""

Validate(o, args) == FirstFailed(Operations[o].checks, args, 1)

(* the identifier parameters of the operation's signature *)
IdParams(o) == {Operations[o].ids[i] : i \in 1..Len(Operations[o].ids)}

(* the parameters a call cannot leave empty: every identifier, and the
   request body where one is required *)
RequiredParams(o) ==
    IdParams(o) \cup (IF Operations[o].body = "required" THEN {"body"} ELSE {})

(* http.NewRequestWithContext(ctx, method, apiURL+endpoint, body) fails
   when the URL does not parse; identifiers formatted raw into the path
   can make it so, escaped ones cannot *)
RequestParses(o, args) ==
    \/ Operations[o].escaped
    \/ \A p \in IdParams(o) : args[p] # "%zz"

---------------------------------------------------------------------------
(* Config, DefaultConfig and NewClient.  Durations are in seconds. *)

DefaultBaseURL == "http://localhost:8025"
DefaultAPIPath == "/api/v1"
DefaultUserAgent == "mailpit-go-client/1.0.0"
DefaultTimeout == 30
DefaultMaxRetries == 3
DefaultRetryDelay == 1

(* a *http.Client: nil, or a client with its Timeout (0: none) and whether
   its transport honours the request's context *)
NilHTTPClient == [isNil |-> TRUE, Timeout |-> 0, honoursCtx |-> FALSE]

HTTPClientOf(timeout, honours) ==
    [isNil |-> FALSE, Timeout |-> timeout, honoursCtx |-> honours]

(* the zero value of Config *)
ZeroConfig ==
    [HTTPClient |-> NilHTTPClient, BaseURL |-> "", APIPath |-> "",
     Username |-> "", Password |-> "", APIKey |-> "", UserAgent |-> "",
     Timeout |-> 0, MaxRetries |-> 0, RetryDelay |-> 0]

DefaultConfig ==
    [HTTPClient |-> HTTPClientOf(DefaultTimeout, TRUE),
     BaseURL |-> DefaultBaseURL, APIPath |-> DefaultAPIPath,
     Username |-> "", Password |-> "", APIKey |-> "",
     UserAgent |-> DefaultUserAgent, Timeout |-> DefaultTimeout,
     MaxRetries |-> DefaultMaxRetries, RetryDelay |-> DefaultRetryDelay]

(* BaseURL strings: empty; absolute; one url.Parse rejects (missing
   protocol scheme); a bare host name (parsed as a relative path);
   host:port without scheme (parsed as scheme "localhost" with opaque
   part); a scheme with an empty host *)
BaseURLs ==
    {"", DefaultBaseURL, "://invalid-url", "localhost", "localhost:8025",
     "http://"}

(* url.Parse(s): whether it succeeds, the Scheme and Host of the URL it
   returns, and what that URL's String() gives back *)
UrlParse(s) ==
    CASE s = DefaultBaseURL ->
             [ok |-> TRUE, Scheme |-> "http", Host |-> "localhost:8025",
              String |-> DefaultBaseURL]
      [] s = "://invalid-url" ->
             [ok |-> FALSE, Scheme |-> "", Host |-> "", String |-> ""]
      [] s = "localhost" ->
             [ok |-> TRUE, Scheme |-> "", Host |-> "",
              String |-> "localhost"]
      [] s = "localhost:8025" ->
             [ok |-> TRUE, Scheme |-> "localhost", Host |-> "",
              String |-> "localhost:8025"]
      [] s = "http://" ->
             [ok |-> TRUE, Scheme |-> "http", Host |-> "",
              String |-> "http:"]
      [] OTHER ->
             [ok |-> TRUE, Scheme |-> "", Host |-> "", String |-> s]

ConfigError(message, cause) ==
    [kind |-> "Error", Type |-> ErrorTypeConfig, Message |-> message,
     Cause |-> cause, StatusCode |-> 0, Response |-> ""]

NilClient == [isNil |-> TRUE, baseURL |-> "", apiURL |-> "", userAgent |-> ""]

(* the required-field check left out *)
BaseURLMissingNever(cfg) == FALSE

(* if config.BaseURL == "" *)
BaseURLMissing(cfg) == cfg.BaseURL = ""

(* the three fields NewClient fills in when they are unset; it writes them
   into the Config it was given *)
WithDefaults(cfg) ==
    [cfg EXCEPT
        !.APIPath = IF @ = "" THEN DefaultAPIPath ELSE @,
        !.HTTPClient = IF @.isNil THEN HTTPClientOf(cfg.Timeout, TRUE) ELSE @,
        !.UserAgent = IF @ = "" THEN DefaultUserAgent ELSE @]

(* NewClient(config): the client and error it returns, and the Config
   object as NewClient leaves it (DefaultConfig's object for a nil
   argument, the caller's object otherwise) *)
NewClient(isNil, arg) ==
    LET cfg == IF isNil THEN DefaultConfig ELSE arg
        u == UrlParse(cfg.BaseURL)
    IN  IF BaseURLMissing(cfg)
        THEN [client |-> NilClient,
              err |-> ConfigError("BaseURL is required", ""),
              config |-> cfg]
        ELSE IF ~u.ok
        THEN [client |-> NilClient,
              err |-> ConfigError("invalid BaseURL", "url"),
              config |-> cfg]
        ELSE [client |-> [isNil |-> FALSE, baseURL |-> u.String,
                          apiURL |-> u.String \o WithDefaults(cfg).APIPath,
                          userAgent |-> WithDefaults(cfg).UserAgent],
              err |-> NoErr,
              config |-> WithDefaults(cfg)]

(* Basic chosen over Bearer when both are configured *)
AuthHeaderBasicFirst(cfg) ==
    IF cfg.Username # "" /\ cfg.Password # ""
    THEN <<"Basic", cfg.Username, cfg.Password>>
    ELSE IF cfg.APIKey # "" THEN <<"Bearer", cfg.APIKey>>
    ELSE <<>>

(* the Authorization header makeRequest sets: Bearer with the API key,
   else Basic with username and password, else none *)
AuthHeader(cfg) ==
    IF cfg.APIKey # "" THEN <<"Bearer", cfg.APIKey>>
    ELSE IF cfg.Username # "" /\ cfg.Password # ""
    THEN <<"Basic", cfg.Username, cfg.Password>>
    ELSE <<>>

(* length of an encoded request body, in bytes *)
ReqBodyLen == 1

(* the body argument of makeRequest: nil, or a *bytes.Buffer into which
   the operation encoded its JSON; unread is what a reader still gets *)
NoBody == [isNil |-> TRUE, unread |-> 0]

(* the operations that encode a request body *)
CarriesBody(o) == Operations[o].body # "none"

NoReq == [url |-> "", UserAgent |-> "", Authorization |-> <<>>, body |-> 0]

(* the request of one attempt: URL prefix and User-Agent from the client
   struct, Authorization from the Config the client points to, and as
   body what is left unread in the buffer (the request reads from the
   buffer itself and its ContentLength is the buffer's Len()) *)
NewRequest ==
    [url |-> client.apiURL, UserAgent |-> client.userAgent,
     Authorization |-> AuthHeader(config), body |-> bodyBuf.unread]

---------------------------------------------------------------------------
(* The conditions makeRequest tests *)

(* the loop written with < : one attempt too few *)
LoopCondStrict(a) == a < config.MaxRetries

(* for attempt := 0; attempt <= c.config.MaxRetries; attempt++ *)
LoopCond(a) == a <= config.MaxRetries

(* the delay taken before every iteration, the first included *)
NeedsWaitAlways(a) == a >= 0

(* if attempt > 0 { select ... } *)
NeedsWait(a) == a > 0

(* only 200 counted as success *)
IsSuccessOnly200(status) == status = StatusOK

(* resp.StatusCode >= http.StatusOK &&
   resp.StatusCode < http.StatusMultipleChoices *)
IsSuccess(status) == status >= StatusOK /\ status < StatusMultipleChoices

(* the lower bound written with > : 400 itself is retried *)
IsNoRetryAbove400(status) ==
    /\ status > StatusBadRequest
    /\ status < StatusInternalServerError
    /\ status # StatusTooManyRequests

(* the break taken only below 429: 430..499 are retried *)
IsNoRetryBelow429(status) ==
    /\ status >= StatusBadRequest
    /\ status < StatusTooManyRequests

(* the condition of the break: 4xx other than 429 *)
IsNoRetry(status) ==
    /\ status >= StatusBadRequest
    /\ status < StatusInternalServerError
    /\ status # StatusTooManyRequests

(* the select returning the recorded error instead of ctx.Err() *)
CancelReturnLastErr(le) == le

(* case <-ctx.Done(): return nil, ctx.Err() *)
CancelReturn(le) == CtxErr

(* the first error kept, later ones dropped *)
RecordErrorKeepFirst(prev, e) == IF prev = NoErr THEN e ELSE prev

(* lastErr = &Error{...}: the new error replaces the recorded one *)
RecordError(prev, e) == e

(* time.After(d) is ready when the select is entered iff d <= 0 *)
TimerReady == config.RetryDelay <= 0

Is5xx(status) == status >= 500 /\ status < 600

(* the transient outcomes: a transport error, a 5xx, a 429 *)
RetryableClass(o) ==
    o.err # "" \/ Is5xx(o.status) \/ o.status = StatusTooManyRequests

---------------------------------------------------------------------------
(* The tail of an operation: parseResponse, io.ReadAll, Body.Close *)

(* the target handed to parseResponse: nil, or a pointer to a value that is
   freshly declared, fully decoded, or filled as far as a failed decode
   got *)
NilTarget == "nil"
ZeroTarget == "zero"

(* len(body) of the bytes io.ReadAll returned *)
BodyLen(body) == IF body = "empty" THEN 0 ELSE 1

(* json.Unmarshal(body, target): its error ("" for nil) and the target
   afterwards.  Input that is not JSON is rejected before the target is
   touched; JSON of the wrong shape is decoded as far as it fits. *)
JSONUnmarshal(body, t) ==
    CASE body = "json" -> [err |-> "", target |-> "decoded"]
      [] body = "mismatch" -> [err |-> "type", target |-> "partial"]
      [] OTHER -> [err |-> "syntax", target |-> t]

ResponseError(message, cause) ==
    [kind |-> "Error", Type |-> ErrorTypeResponse, Message |-> message,
     Cause |-> cause, StatusCode |-> 0, Response |-> ""]

ReadFailure == ResponseError("failed to read response body", "read")

(* the parse error built without its Cause *)
ParseFailureNoCause(cause) ==
    ResponseError("failed to parse JSON response", "")

ParseFailure(cause) == ResponseError("failed to parse JSON response", cause)

(* the empty-body shortcut left out: empty input goes to json.Unmarshal *)
IsEmptyBodyNever(body) == FALSE

(* if len(body) == 0 *)
IsEmptyBody(body) == BodyLen(body) = 0

(* Body.Close called at the end of the function instead of deferred: the
   early returns skip it *)
parseResponseCloseAtEnd(body, readFails, t) ==
    IF t = NilTarget
    THEN [err |-> NoErr, target |-> t, closed |-> FALSE]
    ELSE IF readFails
    THEN [err |-> ReadFailure, target |-> t, closed |-> FALSE]
    ELSE IF IsEmptyBody(body)
    THEN [err |-> NoErr, target |-> t, closed |-> FALSE]
    ELSE IF JSONUnmarshal(body, t).err # ""
    THEN [err |-> ParseFailure(JSONUnmarshal(body, t).err),
          target |-> JSONUnmarshal(body, t).target, closed |-> FALSE]
    ELSE [err |-> NoErr, target |-> JSONUnmarshal(body, t).target,
          closed |-> TRUE]

(* parseResponse(resp, target) on a response with this body, whose read
   fails or not: the error returned, the target afterwards, and whether
   the deferred resp.Body.Close() has run *)
parseResponse(body, readFails, t) ==
    IF t = NilTarget
    THEN [err |-> NoErr, target |-> t, closed |-> TRUE]
    ELSE IF readFails
    THEN [err |-> ReadFailure, target |-> t, closed |-> TRUE]
    ELSE IF IsEmptyBody(body)
    THEN [err |-> NoErr, target |-> t, closed |-> TRUE]
    ELSE IF JSONUnmarshal(body, t).err # ""
    THEN [err |-> ParseFailure(JSONUnmarshal(body, t).err),
          target |-> JSONUnmarshal(body, t).target, closed |-> TRUE]
    ELSE [err |-> NoErr, target |-> JSONUnmarshal(body, t).target,
          closed |-> TRUE]

(* what operation o does with the response makeRequest returned: decode
   it into its result value, read the raw bytes, or nothing; the deferred
   Body.Close runs in each case *)
OperationTail(o, resp, readFails, t) ==
    CASE Operations[o].finish = "parse" ->
             parseResponse(resp.body, readFails, t)
      [] Operations[o].finish = "raw" ->
             [err |-> IF readFails
                      THEN ResponseError("failed to read", "read")
                      ELSE NoErr,
              target |-> t, closed |-> TRUE]
      [] OTHER ->
             [err |-> NoErr, target |-> t, closed |-> TRUE]

---------------------------------------------------------------------------
(* a call that has not started *)
CallIdle ==
    /\ op = ""
    /\ reqValid = TRUE
    /\ attempt = 0
    /\ lastErr = NoErr
    /\ req = NoReq
    /\ result = [resp |-> NoResp, err |-> NoErr]
    /\ target = ZeroTarget
    /\ opErr = NoErr
    /\ respClosed = FALSE
    /\ ctxDone = FALSE
    /\ invocations = 0
    /\ deferred = 0
    /\ unclosed = 0
    /\ trace = <<>>
    /\ lastOutcome = NoOutcome
    /\ allRetryable = TRUE
    /\ priorRetryable = TRUE
    /\ cancelledAt = ""
    /\ invAtCancel = 0
    /\ emptyRequired = {}
    /\ bodyBuf = NoBody

(* no JSON text *)
NoData == [kind |-> "none", elems |-> <<>>]

(* an AttachmentList: the nil slice, or a slice with these items *)
NilList == [isNil |-> TRUE, items |-> <<>>]

ListOf(items) == [isNil |-> FALSE, items |-> items]

(* no concurrent calls, nothing being decoded *)
ConcIdle == calls = <<>> /\ errCells = <<>>

DecodeIdle == data = NoData /\ al = NilList /\ decodeErr = ""

(* no options value, no url.Values, no endpoint, nothing parsed *)
NoOpts ==
    [kind |-> "none", isNil |-> TRUE, Start |-> 0, Limit |-> 0,
     Query |-> <<>>, Tag |-> <<>>, Sort |-> <<>>]

EmptyValues == [k \in {} |-> <<>>]

NoEndpoint == [path |-> "", hasQuery |-> FALSE, rawQuery |-> <<>>]

NothingParsed == [err |-> FALSE, pairs |-> <<>>]

QueryIdle ==
    /\ opts = NoOpts
    /\ query = <<>>
    /\ values = EmptyValues
    /\ endpoint = NoEndpoint
    /\ parsed = NothingParsed

TypesIdle == DecodeIdle /\ QueryIdle

(* the pool variable before the first test asks for a container *)
NilPool ==
    [isNil |-> TRUE, available |-> <<>>, containers |-> <<>>,
     maxSize |-> 0, created |-> 0]

(* no test uses the pool *)
PoolIdle ==
    /\ smtpContainerPool = NilPool
    /\ smtpPoolMu = 0
    /\ lockScope = ""
    /\ tests = <<>>

(* NewClient has returned r for the argument (isNil, arg) *)
Built(isNil, arg, r) ==
    /\ given = [isNil |-> isNil, value |-> arg]
    /\ config = r.config
    /\ client = r.client
    /\ newErr = r.err
    /\ constructed = [config |-> r.config, client |-> r.client]

(* the Configs the request engine is explored with: every retry count and
   delay, a transport of either kind, no credentials *)
EngineConfigs ==
    {[ZeroConfig EXCEPT !.BaseURL = DefaultBaseURL,
                        !.Timeout = DefaultTimeout,
                        !.MaxRetries = mr, !.RetryDelay = rd,
                        !.HTTPClient = HTTPClientOf(DefaultTimeout, h)] :
        mr \in -1..MaxRetriesBound, rd \in RetryDelays, h \in BOOLEAN}

(* a client built by NewClient, no call made yet *)
Init ==
    /\ \E arg \in EngineConfigs : Built(FALSE, arg, NewClient(FALSE, arg))
    /\ pc = "idle"
    /\ CallIdle
    /\ ConcIdle
    /\ TypesIdle
    /\ PoolIdle

(* makeRequest returns (resp, err); its deferred Body.Close calls run, d of
   them over u unclosed bodies *)
Return(resp, err, d, u) ==
    /\ pc' = "returned"
    /\ result' = [resp |-> resp, err |-> err]
    /\ deferred' = 0
    /\ unclosed' = u - d

(* http.NewRequestWithContext, the headers, then HTTPClient.Do is called;
   tr is the event history up to here *)
BuildAndSend(tr) ==
    IF ~reqValid
    THEN /\ Return(NoResp, RequestError, deferred, unclosed)
         /\ allRetryable' = FALSE
         /\ trace' = tr
         /\ UNCHANGED <<invocations, priorRetryable, req>>
    ELSE /\ pc' = "do"
         /\ req' = NewRequest
         /\ invocations' = invocations + 1
         /\ trace' = Append(tr, "attempt")
         /\ UNCHANGED <<result, deferred, unclosed, allRetryable,
                        priorRetryable>>

(* An operation is called.  Its parameter checks run first; if they pass it
   builds the endpoint and enters makeRequest. *)
Call(o, args) ==
    /\ pc = "idle"
    /\ op' = o
    /\ IF Validate(o, args) # ""
       THEN /\ pc' = "done"
            /\ opErr' = NewValidationError(Validate(o, args))
            /\ UNCHANGED reqValid
       ELSE /\ pc' = "loop"
            /\ reqValid' = RequestParses(o, args)
            /\ UNCHANGED opErr
    /\ emptyRequired' = {p \in RequiredParams(o) : IsEmptyArg(args, p)}
    /\ bodyBuf' = IF CarriesBody(o) /\ Validate(o, args) = ""
                  THEN [isNil |-> FALSE, unread |-> ReqBodyLen]
                  ELSE NoBody
    /\ UNCHANGED <<attempt, lastErr, result, respClosed, ctxDone,
                   invocations, deferred, unclosed, trace, lastOutcome,
                   allRetryable, priorRetryable, cancelledAt, invAtCancel,
                   req, target, clientVars,
                   concVars, typesVars, poolVars>>

(* The caller cancels the context (or its deadline passes).  A goroutine
   suspended in the select is woken through the ctx.Done case. *)
Cancel ==
    /\ pc \in {"idle", "loop", "suspended", "do"}
    /\ ~ctxDone
    /\ ctxDone' = TRUE
    /\ cancelledAt' = pc
    /\ invAtCancel' = invocations
    /\ pc' = IF pc = "suspended" THEN "woken" ELSE pc
    /\ UNCHANGED <<op, reqValid, attempt, lastErr, result, opErr,
                   respClosed, invocations, deferred, unclosed, trace, lastOutcome,
                   allRetryable, priorRetryable, emptyRequired, req, target,
                   bodyBuf, clientVars, concVars, typesVars, poolVars>>

(* the loop condition fails: return nil, lastErr *)
LoopExit ==
    /\ pc = "loop"
    /\ ~LoopCond(attempt)
    /\ Return(NoResp, lastErr, deferred, unclosed)
    /\ UNCHANGED <<op, reqValid, attempt, lastErr, opErr, respClosed,
                   ctxDone, invocations, trace, lastOutcome, allRetryable,
                   priorRetryable, cancelledAt, invAtCancel, emptyRequired, req,
                   target, bodyBuf, clientVars, concVars, typesVars, poolVars>>

(* first iteration: no select *)
FirstAttempt ==
    /\ pc = "loop"
    /\ LoopCond(attempt)
    /\ ~NeedsWait(attempt)
    /\ BuildAndSend(trace)
    /\ UNCHANGED <<op, reqValid, attempt, lastErr, opErr, respClosed,
                   ctxDone, lastOutcome, cancelledAt, invAtCancel, emptyRequired,
                   target, bodyBuf, clientVars, concVars, typesVars, poolVars>>

(* a later iteration enters the select with ctx.Done ready: that case may
   be chosen (it is the only choice unless the timer is ready too) *)
SelectCtx ==
    /\ pc = "loop"
    /\ LoopCond(attempt)
    /\ NeedsWait(attempt)
    /\ ctxDone
    /\ Return(NoResp, CancelReturn(lastErr), deferred, unclosed)
    /\ trace' = Append(trace, "wait")
    /\ UNCHANGED <<op, reqValid, attempt, lastErr, opErr, respClosed,
                   ctxDone, invocations, lastOutcome, allRetryable, priorRetryable,
                   cancelledAt, invAtCancel, emptyRequired, req, target, bodyBuf, clientVars,
                   concVars, typesVars, poolVars>>

(* a later iteration enters the select with the timer ready (RetryDelay <=
   0): that case may be chosen, also when ctx.Done is ready as well *)
SelectTimer ==
    /\ pc = "loop"
    /\ LoopCond(attempt)
    /\ NeedsWait(attempt)
    /\ TimerReady
    /\ BuildAndSend(Append(trace, "wait"))
    /\ UNCHANGED <<op, reqValid, attempt, lastErr, opErr, respClosed,
                   ctxDone, lastOutcome, cancelledAt, invAtCancel, emptyRequired,
                   target, bodyBuf, clientVars, concVars, typesVars, poolVars>>

(* a later iteration enters the select with no case ready: it suspends *)
SelectBlock ==
    /\ pc = "loop"
    /\ LoopCond(attempt)
    /\ NeedsWait(attempt)
    /\ ~ctxDone
    /\ ~TimerReady
    /\ pc' = "suspended"
    /\ trace' = Append(trace, "wait")
    /\ UNCHANGED <<op, reqValid, attempt, lastErr, result, opErr,
                   respClosed, ctxDone, invocations, deferred, unclosed, lastOutcome,
                   allRetryable, priorRetryable, cancelledAt, invAtCancel,
                   emptyRequired, req, target, bodyBuf, clientVars, concVars, typesVars, poolVars>>

(* the retry delay elapses while suspended *)
TimerFires ==
    /\ pc = "suspended"
    /\ BuildAndSend(trace)
    /\ UNCHANGED <<op, reqValid, attempt, lastErr, opErr, respClosed,
                   ctxDone, lastOutcome, cancelledAt, invAtCancel, emptyRequired,
                   target, bodyBuf, clientVars, concVars, typesVars, poolVars>>

(* woken by ctx.Done: return nil, ctx.Err() *)
WakeCancelled ==
    /\ pc = "woken"
    /\ Return(NoResp, CancelReturn(lastErr), deferred, unclosed)
    /\ UNCHANGED <<op, reqValid, attempt, lastErr, opErr, respClosed,
                   ctxDone, invocations, trace, lastOutcome, allRetryable,
                   priorRetryable, cancelledAt, invAtCancel, emptyRequired, req,
                   target, bodyBuf, clientVars, concVars, typesVars, poolVars>>

(* what a call of HTTPClient.Do can return now: a transport that honours the
   request's context fails with the context's error once it is cancelled *)
DoOutcomes ==
    IF ctxDone /\ config.HTTPClient.honoursCtx
    THEN {TransportError("ctx")}
    ELSE Outcomes

(* HTTPClient.Do returns o, the transport having read from the request's
   body as much as it wrote of it, and makeRequest runs on to its next
   suspension point or to its return *)
DoReturn(o) ==
    /\ pc = "do"
    /\ o \in DoOutcomes
    /\ lastOutcome' = o
    /\ priorRetryable' = allRetryable
    /\ allRetryable' = (allRetryable /\ RetryableClass(o))
    /\ IF o.err # ""
       THEN \* transport failure: record, continue
            /\ lastErr' = RecordError(lastErr, NetworkError(o.err))
            /\ attempt' = attempt + 1
            /\ pc' = "loop"
            /\ UNCHANGED <<result, deferred, unclosed>>
       ELSE IF IsSuccess(o.status)
       THEN /\ Return(o, NoErr, deferred, unclosed)
            /\ UNCHANGED <<lastErr, attempt>>
       ELSE \* defer resp.Body.Close(); io.ReadAll; lastErr = API error
            /\ lastErr' = RecordError(lastErr, APIError(o.status, o.body))
            /\ IF IsNoRetry(o.status)
               THEN /\ Return(NoResp, lastErr', deferred + 1, unclosed + 1)
                    /\ UNCHANGED attempt
               ELSE /\ attempt' = attempt + 1
                    /\ pc' = "loop"
                    /\ deferred' = deferred + 1
                    /\ unclosed' = unclosed + 1
                    /\ UNCHANGED result
    /\ \E read \in 0..bodyBuf.unread :
            bodyBuf' = [bodyBuf EXCEPT !.unread = @ - read]
    /\ UNCHANGED <<op, reqValid, opErr, respClosed, ctxDone, invocations,
                   trace, cancelledAt, invAtCancel, emptyRequired, req, target,
                   clientVars, concVars, typesVars, poolVars>>

(* The operation's tail after makeRequest returned: an error is passed on
   unchanged; a response is parsed (parseResponse), read (io.ReadAll) or
   only closed, and its body is closed on the way out *)
Finish ==
    /\ pc = "returned"
    /\ result.err # NoErr \/ result.resp # NoResp
    /\ pc' = "done"
    /\ IF result.err # NoErr
       THEN opErr' = result.err /\ UNCHANGED <<respClosed, target>>
       ELSE \E readFails \in BOOLEAN :
               /\ opErr' = OperationTail(op, result.resp, readFails, target).err
               /\ target' = OperationTail(op, result.resp, readFails, target).target
               /\ respClosed' = OperationTail(op, result.resp, readFails, target).closed
    /\ UNCHANGED <<op, reqValid, attempt, lastErr, result, ctxDone,
                   invocations, deferred, unclosed, trace, lastOutcome,
                   allRetryable, priorRetryable, cancelledAt, invAtCancel,
                   emptyRequired, req, bodyBuf, clientVars, concVars, typesVars, poolVars>>

(* makeRequest returned (nil, nil), the loop never having run: the
   operation dereferences the nil response *)
NilDeref ==
    /\ pc = "returned"
    /\ result = [resp |-> NoResp, err |-> NoErr]
    /\ pc' = "panicked"
    /\ UNCHANGED <<op, reqValid, attempt, lastErr, result, opErr,
                   respClosed, target, ctxDone, invocations, deferred,
                   unclosed, trace, lastOutcome, allRetryable,
                   priorRetryable, cancelledAt, invAtCancel, emptyRequired,
                   req, bodyBuf, clientVars, concVars, typesVars, poolVars>>

Next ==
    \/ \E o \in OpNames, args \in Args : Call(o, args)
    \/ Cancel
    \/ LoopExit
    \/ FirstAttempt
    \/ SelectCtx
    \/ SelectTimer
    \/ SelectBlock
    \/ TimerFires
    \/ WakeCancelled
    \/ \E o \in Outcomes \cup {TransportError("ctx")} : DoReturn(o)
    \/ Finish
    \/ NilDeref

Spec == Init /\ [][Next]_vars

---------------------------------------------------------------------------
(* Construction of a client, the caller writing afterwards to the Config it
   passed in, and one call on the client. *)

(* the Configs NewClient is called with: each BaseURL with everything else
   unset; a good BaseURL with each optional field unset or set; every
   combination of credentials; a negative retry count *)
ConfigInputs ==
    {[ZeroConfig EXCEPT !.BaseURL = b] : b \in BaseURLs}
    \cup {[ZeroConfig EXCEPT !.BaseURL = DefaultBaseURL, !.APIPath = ap,
                             !.UserAgent = ua, !.HTTPClient = hc,
                             !.Timeout = rt, !.MaxRetries = rt,
                             !.RetryDelay = rt] :
            ap \in {"", "/custom"}, ua \in {"", "custom-agent"},
            hc \in {NilHTTPClient, HTTPClientOf(5, TRUE)}, rt \in {0, 1}}
    \cup {[ZeroConfig EXCEPT !.BaseURL = DefaultBaseURL, !.MaxRetries = 1,
                             !.APIKey = k, !.Username = u, !.Password = pw] :
            k \in {"", "key"}, u \in {"", "user"}, pw \in {"", "pass"}}
    \cup {[ZeroConfig EXCEPT !.BaseURL = DefaultBaseURL, !.MaxRetries = -1]}

(* what the caller can store into the Config after NewClient returned *)
CallerValues(cfg) ==
    {[cfg EXCEPT !.MaxRetries = 2],
     [cfg EXCEPT !.APIKey = "key2"],
     [cfg EXCEPT !.UserAgent = "agent2"],
     [cfg EXCEPT !.APIPath = "/v2"],
     [cfg EXCEPT !.HTTPClient = HTTPClientOf(0, FALSE)]}

(* the operation called on the client *)
ClientOps == {"GetMessage"}

InitClient ==
    /\ pc = "new"
    /\ Built(TRUE, ZeroConfig,
             [client |-> NilClient, err |-> NoErr, config |-> ZeroConfig])
    /\ CallIdle
    /\ ConcIdle
    /\ TypesIdle
    /\ PoolIdle

(* NewClient(nil) or NewClient(&arg) is called and returns *)
Construct(isNil, arg) ==
    /\ pc = "new"
    /\ given' = [isNil |-> isNil, value |-> arg]
    /\ config' = NewClient(isNil, arg).config
    /\ client' = NewClient(isNil, arg).client
    /\ newErr' = NewClient(isNil, arg).err
    /\ constructed' = [config |-> NewClient(isNil, arg).config,
                       client |-> NewClient(isNil, arg).client]
    /\ pc' = IF NewClient(isNil, arg).err = NoErr THEN "idle" ELSE "failed"
    /\ UNCHANGED <<frameVars, concVars, typesVars, poolVars>>

(* between NewClient and the call, the caller assigns once to a field of
   the Config it passed in; the client holds a pointer to the same Config *)
CallerWrites ==
    /\ pc = "idle"
    /\ ~given.isNil
    /\ config = constructed.config
    /\ config' \in CallerValues(config)
    /\ config' # config
    /\ UNCHANGED <<given, client, newErr, constructed, callVars, concVars,
                   typesVars, poolVars>>

NextClient ==
    \/ Construct(TRUE, ZeroConfig)
    \/ \E arg \in ConfigInputs : Construct(FALSE, arg)
    \/ CallerWrites
    \/ \E o \in ClientOps, id \in IDs :
          Call(o, [id1 |-> id, id2 |-> "", body |-> "nil"])
    \/ Cancel
    \/ LoopExit
    \/ FirstAttempt
    \/ SelectCtx
    \/ SelectTimer
    \/ SelectBlock
    \/ TimerFires
    \/ WakeCancelled
    \/ \E o \in Outcomes \cup {TransportError("ctx")} : DoReturn(o)
    \/ Finish
    \/ NilDeref

SpecClient == InitClient /\ [][NextClient]_vars

---------------------------------------------------------------------------
(* Text as sequences of characters, and the conversions between numbers
   and their decimal text (strconv.Itoa, and the number scanner of
   encoding/json). *)

Digits == <<"0", "1", "2", "3", "4", "5", "6", "7", "8", "9">>

RECURSIVE ItoaNat(_)
ItoaNat(n) ==
    IF n < 10 THEN <<Digits[n + 1]>>
    ELSE ItoaNat(n \div 10) \o <<Digits[(n % 10) + 1]>>

(* strconv.Itoa(n) *)
Itoa(n) == IF n < 0 THEN <<"-">> \o ItoaNat(0 - n) ELSE ItoaNat(n)

RECURSIVE Atoi(_)
(* the value of a decimal literal *)
Atoi(lex) ==
    IF Len(lex) = 0 THEN 0
    ELSE 10 * Atoi(SubSeq(lex, 1, Len(lex) - 1))
           + (CHOOSE d \in 0..9 : Digits[d + 1] = lex[Len(lex)])

---------------------------------------------------------------------------
(* Decoding of an attachment-count field (types.go: AttachmentList) with
   json.Unmarshal. *)

(* longest JSON array decoded *)
MaxElems == 2

(* elements of a JSON array: two attachment objects, an object with fields
   missing, and a value that does not decode into an Attachment *)
ElemKinds == {"att1", "att2", "partial", "bad"}

ArraysOf(n) == UNION {[1..k -> ElemKinds] : k \in 0..n}

(* JSON texts by what they hold: an array, one of the other JSON values,
   or bytes that are not JSON (arbitrary text, a truncated document) *)
JSONTexts ==
    {[kind |-> "array", elems |-> e] : e \in ArraysOf(MaxElems)}
    \cup {[kind |-> k, elems |-> <<>>] :
            k \in {"null", "int", "float", "string", "bool", "object",
                   "invalid", "truncated"}}

(* the members of each element as they stand in the JSON text: the
   content of the string members ("" when the member is missing) and the
   characters of the Size member (none when it is missing; the bad
   element holds a JSON string where the number is expected) *)
ElemJSON(e) ==
    CASE e = "att1" ->
            [PartID |-> "1", FileName |-> "document.pdf",
             ContentType |-> "application/pdf",
             Size |-> <<"1", "0", "2", "4">>]
      [] e = "att2" ->
            [PartID |-> "2", FileName |-> "image.jpg",
             ContentType |-> "image/jpeg",
             Size |-> <<"2", "0", "4", "8">>]
      [] e = "partial" ->
            [PartID |-> "1", FileName |-> "test.txt",
             ContentType |-> "", Size |-> <<>>]
      [] OTHER ->
            [PartID |-> "3", FileName |-> "bad.bin",
             ContentType |-> "", Size |-> <<"\"", "7", "\"">>]

(* a JSON number that an int field accepts: decimal digits only *)
IsIntLiteral(lex) ==
    /\ Len(lex) > 0
    /\ \A i \in 1..Len(lex) : lex[i] \in {Digits[d] : d \in 1..10}

(* the element decodes into an Attachment: the Size member is missing
   or is a number *)
ElemDecodes(e) == ElemJSON(e).Size = <<>> \/ IsIntLiteral(ElemJSON(e).Size)

(* the Attachment an element decodes into; a missing member leaves the
   field at its zero value *)
Attachment(e) ==
    [PartID |-> ElemJSON(e).PartID,
     FileName |-> ElemJSON(e).FileName,
     ContentType |-> ElemJSON(e).ContentType,
     Size |-> IF ElemJSON(e).Size = <<>> THEN 0 ELSE Atoi(ElemJSON(e).Size)]

(* the values the variable decoded into can hold beforehand *)
PriorLists == {NilList, ListOf(<<>>), ListOf(<<Attachment("att2")>>)}

(* the syntax check json.Unmarshal makes before it stores anything *)
JSONValid(d) == d.kind \notin {"invalid", "truncated"}

(* json.Unmarshal(data, &attachments) into a nil []Attachment: null
   leaves it nil, an array is decoded element by element, anything else
   (or an element that is no Attachment) is a type error *)
UnmarshalSlice(d) ==
    IF d.kind = "null" THEN [err |-> "", al |-> NilList]
    ELSE IF d.kind = "array"
            /\ \A i \in 1..Len(d.elems) : ElemDecodes(d.elems[i])
    THEN [err |-> "",
          al |-> ListOf([i \in 1..Len(d.elems) |-> Attachment(d.elems[i])])]
    ELSE [err |-> "type", al |-> NilList]

(* json.Unmarshal(data, &num) into an int *)
UnmarshalInt(d) == IF d.kind \in {"int", "null"} THEN "" ELSE "type"

(* a number decodes to the nil list *)
EmptyListNil == NilList

(* the number succeeded: *al = AttachmentList{} *)
EmptyList == ListOf(<<>>)

(* the second decoding error passed on when both attempts failed *)
BothFailedReturnsError(d) == [err |-> UnmarshalInt(d), al |-> ListOf(<<>>)]

(* if both fail: *al = AttachmentList{}; return nil *)
BothFailed(d) == [err |-> "", al |-> ListOf(<<>>)]

(* AttachmentList.UnmarshalJSON(data): array first, then number *)
UnmarshalJSON(d) ==
    IF UnmarshalSlice(d).err = ""
    THEN [err |-> "", al |-> UnmarshalSlice(d).al]
    ELSE IF UnmarshalInt(d) = ""
    THEN [err |-> "", al |-> EmptyList]
    ELSE BothFailed(d)

(* json.Unmarshal(data, &al) with al an AttachmentList holding prev: the
   syntax check, then the type's own UnmarshalJSON *)
UnmarshalAttachmentList(d, prev) ==
    IF ~JSONValid(d) THEN [err |-> "syntax", al |-> prev]
    ELSE UnmarshalJSON(d)

(* the query parameters of the listing operations: ListOptions and
   SearchOptions (types.go), ListMessages and SearchMessages (messages.go).
   A string is a sequence of characters; a parameter name is one symbol. *)

(* option strings: empty, plain, each character that has a meaning in a
   query string, and two longer ones *)
Strings ==
    {<<>>, <<"a">>, <<" ">>, <<"&">>, <<"=">>, <<"%">>, <<"+">>,
     <<"a", "&", "a">>, <<"%", "2", "6">>}

(* Start and Limit: negative, zero, one digit, two digits *)
OptionInts == {0 - 1, 0, 7, 25}

ListOptionsValues ==
    {[kind |-> "ListOptions", isNil |-> FALSE, Start |-> st, Limit |-> li,
      Query |-> q, Tag |-> tg, Sort |-> so] :
        st \in OptionInts, li \in OptionInts,
        q \in Strings, tg \in Strings, so \in Strings}
    \cup {[NoOpts EXCEPT !.kind = "ListOptions"]}

SearchOptionsValues ==
    {[kind |-> "SearchOptions", isNil |-> FALSE, Start |-> st, Limit |-> li,
      Query |-> <<>>, Tag |-> tg, Sort |-> so] :
        st \in OptionInts, li \in OptionInts,
        tg \in Strings, so \in Strings}
    \cup {[NoOpts EXCEPT !.kind = "SearchOptions"]}

(* zero is serialized too *)
IsPositiveOrZero(n) == n >= 0

(* if opts.Start > 0, if opts.Limit > 0 *)
IsPositive(n) == n > 0

(* the keys ToURLValues sets for a non-nil options value; SearchOptions
   has no Query field *)
KeysSet(o) ==
    {k \in {"start"} : IsPositive(o.Start)}
    \cup {k \in {"limit"} : IsPositive(o.Limit)}
    \cup {k \in {"query"} : o.kind = "ListOptions" /\ o.Query # <<>>}
    \cup {k \in {"tag"} : o.Tag # <<>>}
    \cup {k \in {"sort"} : o.Sort # <<>>}

(* opts.ToURLValues() of *ListOptions and of *SearchOptions *)
ToURLValues(o) ==
    IF o.isNil THEN EmptyValues
    ELSE [k \in KeysSet(o) |->
            CASE k = "start" -> Itoa(o.Start)
              [] k = "limit" -> Itoa(o.Limit)
              [] k = "query" -> o.Query
              [] k = "tag" -> o.Tag
              [] OTHER -> o.Sort]

(* the two hexadecimal digits of the characters url.QueryEscape escapes *)
HexOf(c) ==
    CASE c = " " -> <<"2", "0">>
      [] c = "%" -> <<"2", "5">>
      [] c = "&" -> <<"2", "6">>
      [] c = "+" -> <<"2", "B">>
      [] OTHER -> <<"3", "D">>

Escaped == {" ", "%", "&", "+", "="}

RECURSIVE QueryEscape(_)
(* url.QueryEscape(s): a space becomes +, the other characters that are
   not letters or digits become %XX *)
QueryEscape(s) ==
    IF s = <<>> THEN <<>>
    ELSE (IF Head(s) = " " THEN <<"+">>
          ELSE IF Head(s) \in Escaped THEN <<"%">> \o HexOf(Head(s))
          ELSE <<Head(s)>>) \o QueryEscape(Tail(s))

(* the character a valid %XX stands for *)
Unhex(h1, h2) ==
    IF \E c \in Escaped : HexOf(c) = <<h1, h2>>
    THEN CHOOSE c \in Escaped : HexOf(c) = <<h1, h2>>
    ELSE "other"

RECURSIVE QueryUnescape(_)
(* url.QueryUnescape(s): + becomes a space, %XX its character; a % that
   is not followed by two hexadecimal digits is an error *)
QueryUnescape(s) ==
    IF s = <<>> THEN [ok |-> TRUE, s |-> <<>>]
    ELSE IF Head(s) = "%"
    THEN IF /\ Len(s) >= 3
            /\ \A i \in 2..3 :
                  s[i] \in {Digits[d] : d \in 1..10}
                           \cup {"a", "b", "c", "d", "e", "f",
                                 "A", "B", "C", "D", "E", "F"}
         THEN [ok |-> QueryUnescape(SubSeq(s, 4, Len(s))).ok,
               s |-> <<Unhex(s[2], s[3])>>
                        \o QueryUnescape(SubSeq(s, 4, Len(s))).s]
         ELSE [ok |-> FALSE, s |-> <<>>]
    ELSE [ok |-> QueryUnescape(Tail(s)).ok,
          s |-> <<IF Head(s) = "+" THEN " " ELSE Head(s)>>
                    \o QueryUnescape(Tail(s)).s]

RECURSIVE JoinAmp(_)
(* strings.Join(params, "&") *)
JoinAmp(params) ==
    IF Len(params) = 0 THEN <<>>
    ELSE IF Len(params) = 1 THEN params[1]
    ELSE params[1] \o <<"&">> \o JoinAmp(Tail(params))

(* url.Values.Encode(): key=value pairs sorted by key, both escaped *)
Encode(v) ==
    LET Has(k) == k \in DOMAIN v
        keys == SelectSeq(<<"limit", "query", "sort", "start", "tag">>, Has)
    IN  JoinAmp([i \in 1..Len(keys) |->
                    <<keys[i], "=">> \o QueryEscape(v[keys[i]])])

(* the orders in which a range over the map can visit its keys *)
RangeOrders(v) ==
    {f \in [1..Cardinality(DOMAIN v) -> DOMAIN v] :
        \A i, j \in DOMAIN f : f[i] = f[j] => i = j}

(* ListMessages: the endpoint it hands to makeRequest *)
ListMessagesEndpoint(o) ==
    IF ~o.isNil /\ Cardinality(DOMAIN ToURLValues(o)) > 0
    THEN [path |-> "/messages", hasQuery |-> TRUE,
          rawQuery |-> Encode(ToURLValues(o))]
    ELSE [path |-> "/messages", hasQuery |-> FALSE, rawQuery |-> <<>>]

(* SearchMessages: the query is escaped, and each pair of the options is
   appended as key + "=" + value in the order the range visits them *)
SearchMessagesEndpoint(q, o, order) ==
    [path |-> "/search", hasQuery |-> TRUE,
     rawQuery |->
        JoinAmp(<<(<<"query", "=">> \o QueryEscape(q))>>
                \o [i \in 1..Len(order) |->
                        <<order[i], "=">> \o ToURLValues(o)[order[i]]])]

(* position of the first sep in s, or 0 *)
IndexOf(s, sep) ==
    IF \E i \in 1..Len(s) : s[i] = sep
    THEN CHOOSE i \in 1..Len(s) :
            s[i] = sep /\ \A j \in 1..(i - 1) : s[j] # sep
    ELSE 0

(* strings.Cut(s, sep) *)
Cut(s, sep) ==
    IF IndexOf(s, sep) = 0 THEN [before |-> s, after |-> <<>>]
    ELSE [before |-> SubSeq(s, 1, IndexOf(s, sep) - 1),
          after |-> SubSeq(s, IndexOf(s, sep) + 1, Len(s))]

RECURSIVE ParseQuery(_)
(* url.ParseQuery(q): the pairs between the "&"s, each cut at its first
   "=" and unescaped; an empty pair is skipped, a pair that does not
   unescape is dropped and reported *)
ParseQuery(q) ==
    IF q = <<>> THEN NothingParsed
    ELSE LET pair == Cut(q, "&").before
             rest == ParseQuery(Cut(q, "&").after)
             key == QueryUnescape(Cut(pair, "=").before)
             value == QueryUnescape(Cut(pair, "=").after)
         IN  IF pair = <<>> THEN rest
             ELSE IF ~key.ok \/ ~value.ok
             THEN [err |-> TRUE, pairs |-> rest.pairs]
             ELSE [err |-> rest.err,
                   pairs |-> <<(<<key.s, value.s>>)>> \o rest.pairs]

(* a JSON text to decode into a list, or an options value (and, for
   SearchMessages, a query) to turn into query parameters *)
InitTypes ==
    /\ \/ /\ pc = "decode"
          /\ data \in JSONTexts
          /\ al \in PriorLists
          /\ decodeErr = ""
          /\ QueryIdle
       \/ /\ pc = "encode"
          /\ \/ opts \in ListOptionsValues /\ query = <<>>
             \/ opts \in SearchOptionsValues /\ query \in Strings
          /\ values = EmptyValues
          /\ endpoint = NoEndpoint
          /\ parsed = NothingParsed
          /\ DecodeIdle
    /\ Built(TRUE, ZeroConfig, NewClient(TRUE, ZeroConfig))
    /\ CallIdle
    /\ ConcIdle
    /\ PoolIdle

DecodeAttachments ==
    /\ pc = "decode"
    /\ pc' = "decoded"
    /\ decodeErr' = UnmarshalAttachmentList(data, al).err
    /\ al' = UnmarshalAttachmentList(data, al).al
    /\ UNCHANGED <<data, queryVars, clientVars, frameVars, concVars, poolVars>>

(* values := opts.ToURLValues() *)
ConvertOptions ==
    /\ pc = "encode"
    /\ pc' = "converted"
    /\ values' = ToURLValues(opts)
    /\ UNCHANGED <<opts, query, endpoint, parsed>>
    /\ UNCHANGED <<decodeVars, clientVars, frameVars, concVars, poolVars>>

(* c.ListMessages(ctx, opts), up to the endpoint it requests *)
ListMessages ==
    /\ pc = "encode"
    /\ opts.kind = "ListOptions"
    /\ pc' = "built"
    /\ values' = ToURLValues(opts)
    /\ endpoint' = ListMessagesEndpoint(opts)
    /\ UNCHANGED <<opts, query, parsed>>
    /\ UNCHANGED <<decodeVars, clientVars, frameVars, concVars, poolVars>>

(* c.SearchMessages(ctx, query, opts), up to the endpoint it requests;
   an empty query is rejected before anything is built *)
SearchMessages ==
    /\ pc = "encode"
    /\ opts.kind = "SearchOptions"
    /\ IF query = <<>>
       THEN /\ pc' = "rejected"
            /\ UNCHANGED <<values, endpoint>>
       ELSE /\ pc' = "built"
            /\ values' = ToURLValues(opts)
            /\ \E order \in RangeOrders(ToURLValues(opts)) :
                 endpoint' = SearchMessagesEndpoint(query, opts, order)
    /\ UNCHANGED <<opts, query, parsed>>
    /\ UNCHANGED <<decodeVars, clientVars, frameVars, concVars, poolVars>>

(* the receiver of the request parses the query string of its URL *)
ReceiveQuery ==
    /\ pc = "built"
    /\ pc' = "parsed"
    /\ parsed' = ParseQuery(endpoint.rawQuery)
    /\ UNCHANGED <<opts, query, values, endpoint>>
    /\ UNCHANGED <<decodeVars, clientVars, frameVars, concVars, poolVars>>

NextTypes ==
    \/ DecodeAttachments
    \/ ConvertOptions
    \/ ListMessages
    \/ SearchMessages
    \/ ReceiveQuery

SpecTypes == InitTypes /\ [][NextTypes]_vars

---------------------------------------------------------------------------
(* Several goroutines calling operations on one client at once.  Each call
   of makeRequest has its own frame (attempt, the request, the response,
   lastErr); the client struct and its Config are read by all of them. *)

(* number of concurrent calls *)
NumCalls == 2

CallIds == 1..NumCalls

(* what the transport answers in this specification *)
ConcOutcomes ==
    {TransportError("io"),
     [err |-> "", status |-> 200, body |-> "json"],
     [err |-> "", status |-> 404, body |-> "e1"],
     [err |-> "", status |-> 500, body |-> "e2"]}

(* lastErr kept in a field of the shared client struct *)
ErrCellShared(i) == 1

(* var lastErr error: a local of makeRequest, one per call *)
ErrCell(i) == i

NewFrame ==
    [pc |-> "idle", attempt |-> 0, invocations |-> 0, ctxDone |-> FALSE,
     lastOutcome |-> NoOutcome, result |-> [resp |-> NoResp, err |-> NoErr]]

ConcConfigs ==
    {[ZeroConfig EXCEPT !.BaseURL = DefaultBaseURL, !.MaxRetries = mr,
                        !.RetryDelay = rd,
                        !.HTTPClient = HTTPClientOf(DefaultTimeout, TRUE)] :
        mr \in 0..MaxRetriesBound, rd \in RetryDelays}

InitConc ==
    /\ \E arg \in ConcConfigs : Built(FALSE, arg, NewClient(FALSE, arg))
    /\ pc = "concurrent"
    /\ CallIdle
    /\ calls = [i \in CallIds |-> NewFrame]
    /\ errCells = [i \in CallIds |-> NoErr]
    /\ TypesIdle
    /\ PoolIdle

(* call i returns (resp, err) from makeRequest *)
ConcReturn(i, f, resp, err) ==
    calls' = [calls EXCEPT
                 ![i] = [f EXCEPT !.pc = "returned",
                                  !.result = [resp |-> resp, err |-> err]]]

(* call i hands a request to HTTPClient.Do *)
ConcSend(i, f) ==
    calls' = [calls EXCEPT
                 ![i] = [f EXCEPT !.pc = "do",
                                  !.invocations = @ + 1]]

(* goroutine i calls an operation and enters makeRequest *)
ConcCall(i) ==
    /\ calls[i].pc = "idle"
    /\ calls' = [calls EXCEPT ![i].pc = "loop"]
    /\ errCells' = [errCells EXCEPT ![ErrCell(i)] = NoErr]
    /\ UNCHANGED <<clientVars, callVars, typesVars, poolVars>>

(* the context of call i is cancelled; a call suspended in the select
   returns ctx.Err() *)
ConcCancel(i) ==
    /\ calls[i].pc \in {"idle", "loop", "suspended", "do"}
    /\ ~calls[i].ctxDone
    /\ IF calls[i].pc = "suspended"
       THEN ConcReturn(i, [calls[i] EXCEPT !.ctxDone = TRUE], NoResp,
                       CancelReturn(errCells[ErrCell(i)]))
       ELSE calls' = [calls EXCEPT ![i].ctxDone = TRUE]
    /\ UNCHANGED <<errCells, clientVars, callVars, typesVars, poolVars>>

ConcLoopExit(i) ==
    /\ calls[i].pc = "loop"
    /\ ~LoopCond(calls[i].attempt)
    /\ ConcReturn(i, calls[i], NoResp, errCells[ErrCell(i)])
    /\ UNCHANGED <<errCells, clientVars, callVars, typesVars, poolVars>>

ConcFirstAttempt(i) ==
    /\ calls[i].pc = "loop"
    /\ LoopCond(calls[i].attempt)
    /\ ~NeedsWait(calls[i].attempt)
    /\ ConcSend(i, calls[i])
    /\ UNCHANGED <<errCells, clientVars, callVars, typesVars, poolVars>>

ConcSelectCtx(i) ==
    /\ calls[i].pc = "loop"
    /\ LoopCond(calls[i].attempt)
    /\ NeedsWait(calls[i].attempt)
    /\ calls[i].ctxDone
    /\ ConcReturn(i, calls[i], NoResp, CancelReturn(errCells[ErrCell(i)]))
    /\ UNCHANGED <<errCells, clientVars, callVars, typesVars, poolVars>>

ConcSelectTimer(i) ==
    /\ calls[i].pc = "loop"
    /\ LoopCond(calls[i].attempt)
    /\ NeedsWait(calls[i].attempt)
    /\ TimerReady
    /\ ConcSend(i, calls[i])
    /\ UNCHANGED <<errCells, clientVars, callVars, typesVars, poolVars>>

ConcSelectBlock(i) ==
    /\ calls[i].pc = "loop"
    /\ LoopCond(calls[i].attempt)
    /\ NeedsWait(calls[i].attempt)
    /\ ~calls[i].ctxDone
    /\ ~TimerReady
    /\ calls' = [calls EXCEPT ![i].pc = "suspended"]
    /\ UNCHANGED <<errCells, clientVars, callVars, typesVars, poolVars>>

ConcTimerFires(i) ==
    /\ calls[i].pc = "suspended"
    /\ ConcSend(i, calls[i])
    /\ UNCHANGED <<errCells, clientVars, callVars, typesVars, poolVars>>

(* the error makeRequest records for a failed attempt *)
ErrorOf(o) ==
    IF o.err # "" THEN NetworkError(o.err) ELSE APIError(o.status, o.body)

(* HTTPClient.Do of call i returns o *)
ConcDoReturn(i, o) ==
    /\ calls[i].pc = "do"
    /\ o \in (IF calls[i].ctxDone /\ config.HTTPClient.honoursCtx
              THEN {TransportError("ctx")} ELSE ConcOutcomes)
    /\ IF o.err = "" /\ IsSuccess(o.status)
       THEN /\ ConcReturn(i, [calls[i] EXCEPT !.lastOutcome = o], o, NoErr)
            /\ UNCHANGED errCells
       ELSE /\ errCells' =
                  [errCells EXCEPT
                      ![ErrCell(i)] = RecordError(@, ErrorOf(o))]
            /\ IF o.err = "" /\ IsNoRetry(o.status)
               THEN ConcReturn(i, [calls[i] EXCEPT !.lastOutcome = o],
                               NoResp, errCells'[ErrCell(i)])
               ELSE calls' =
                        [calls EXCEPT
                            ![i] = [@ EXCEPT !.lastOutcome = o,
                                             !.attempt = @ + 1,
                                             !.pc = "loop"]]
    /\ UNCHANGED <<clientVars, callVars, typesVars, poolVars>>

NextConc ==
    \E i \in CallIds :
        \/ ConcCall(i)
        \/ ConcCancel(i)
        \/ ConcLoopExit(i)
        \/ ConcFirstAttempt(i)
        \/ ConcSelectCtx(i)
        \/ ConcSelectTimer(i)
        \/ ConcSelectBlock(i)
        \/ ConcTimerFires(i)
        \/ \E o \in ConcOutcomes \cup {TransportError("ctx")} :
              ConcDoReturn(i, o)

SpecConc == InitConc /\ [][NextConc]_vars

---------------------------------------------------------------------------
(* The pool of mailpit containers the test helpers share (testing.go:
   SMTPContainerPool, getSMTPContainerFromPool, releaseSMTPContainerToPool).
   Tests run in parallel; each asks the pool for a container and its
   cleanup gives the container back. *)

(* tests running at once, and the largest pool size (TEST_SMTP_POOL_SIZE) *)
NumTests == 3

MaxPoolSize == 2

Tests == 1..NumTests

(* a test holds no container *)
NoContainer == 0

(* &SMTPContainerPool{..., maxSize: poolSize, created: 0} *)
NewPool(poolSize) ==
    [isNil |-> FALSE, available |-> <<>>, containers |-> <<>>,
     maxSize |-> poolSize, created |-> 0]

(* a new container may be started at the limit too *)
CanCreateAtLimit(p) == p.created <= p.maxSize

(* canCreate := smtpContainerPool.created < smtpContainerPool.maxSize *)
CanCreate(p) == p.created < p.maxSize

(* a received container stays in the channel *)
ReceivedStays(available) == available

(* c := <-smtpContainerPool.available: what is left in the channel *)
Received(available) == Tail(available)

(* the deferred smtpPoolMu.Unlock(): smtpPoolMu is held for the whole of
   getSMTPContainerFromPool ("call": lock and deferred unlock at its top)
   or only while the pool is initialized ("init": inside
   initSMTPContainerPool) *)
Unlocked == IF lockScope = "call" THEN 0 ELSE smtpPoolMu

(* test t moves to position p holding container c obtained by way v *)
Moved(t, p, c, v) ==
    [tests EXCEPT ![t] = [pc |-> p, container |-> c, via |-> v]]

InitPool ==
    /\ pc = "pool"
    /\ smtpContainerPool = NilPool
    /\ smtpPoolMu = 0
    /\ lockScope \in {"call", "init"}
    /\ tests = [t \in Tests |->
                  [pc |-> "idle", container |-> NoContainer, via |-> ""]]
    /\ Built(TRUE, ZeroConfig, NewClient(TRUE, ZeroConfig))
    /\ CallIdle
    /\ ConcIdle
    /\ TypesIdle

(* a test enters getSMTPContainerFromPool: it takes smtpPoolMu and
   initializes the pool if there is none *)
EnterGet(t) ==
    /\ tests[t].pc \in {"idle", "done", "failed"}
    /\ smtpPoolMu = 0
    /\ smtpPoolMu' = IF lockScope = "call" THEN t ELSE 0
    /\ IF smtpContainerPool.isNil
       THEN \E poolSize \in 1..MaxPoolSize :
                smtpContainerPool' = NewPool(poolSize)
       ELSE UNCHANGED smtpContainerPool
    /\ tests' = Moved(t, "try", NoContainer, "")
    /\ UNCHANGED <<lockScope, clientVars, callVars, concVars, typesVars>>

(* the non-blocking select: an available container is returned *)
TryReceive(t) ==
    /\ tests[t].pc = "try"
    /\ IF Len(smtpContainerPool.available) > 0
       THEN /\ tests' = Moved(t, "holding",
                              Head(smtpContainerPool.available), "try")
            /\ smtpContainerPool' =
                 [smtpContainerPool EXCEPT
                    !.available = Received(smtpContainerPool.available)]
            /\ smtpPoolMu' = Unlocked
       ELSE /\ tests' = Moved(t, "check", NoContainer, "")
            /\ UNCHANGED <<smtpContainerPool, smtpPoolMu>>
    /\ UNCHANGED <<lockScope, clientVars, callVars, concVars, typesVars>>

(* under the pool's mu: canCreate, and created++ if so *)
ReserveSlot(t) ==
    /\ tests[t].pc = "check"
    /\ IF CanCreate(smtpContainerPool)
       THEN /\ smtpContainerPool' =
                 [smtpContainerPool EXCEPT !.created = @ + 1]
            /\ tests' = Moved(t, "start", NoContainer, "")
       ELSE /\ tests' = Moved(t, "wait", NoContainer, "")
            /\ UNCHANGED smtpContainerPool
    /\ UNCHANGED <<smtpPoolMu, lockScope, clientVars, callVars, concVars,
                   typesVars>>

(* testcontainers.GenericContainer started a container: it is appended
   to containers and returned *)
StartContainer(t) ==
    /\ tests[t].pc = "start"
    /\ smtpContainerPool' =
         [smtpContainerPool EXCEPT
            !.containers = Append(@, Len(@) + 1)]
    /\ tests' = Moved(t, "holding",
                      Len(smtpContainerPool.containers) + 1, "start")
    /\ smtpPoolMu' = Unlocked
    /\ UNCHANGED <<lockScope, clientVars, callVars, concVars, typesVars>>

(* the container did not start: created--, tb.Fatalf *)
StartFails(t) ==
    /\ tests[t].pc = "start"
    /\ smtpContainerPool' = [smtpContainerPool EXCEPT !.created = @ - 1]
    /\ tests' = Moved(t, "failed", NoContainer, "")
    /\ smtpPoolMu' = Unlocked
    /\ UNCHANGED <<lockScope, clientVars, callVars, concVars, typesVars>>

(* the blocking select receives a released container *)
WaitReceive(t) ==
    /\ tests[t].pc = "wait"
    /\ Len(smtpContainerPool.available) > 0
    /\ tests' = Moved(t, "holding",
                      Head(smtpContainerPool.available), "wait")
    /\ smtpContainerPool' =
         [smtpContainerPool EXCEPT
            !.available = Received(smtpContainerPool.available)]
    /\ smtpPoolMu' = Unlocked
    /\ UNCHANGED <<lockScope, clientVars, callVars, concVars, typesVars>>

(* the blocking select sees the test's context done: tb.Fatalf *)
WaitCancelled(t) ==
    /\ tests[t].pc = "wait"
    /\ tests' = Moved(t, "failed", NoContainer, "")
    /\ smtpPoolMu' = Unlocked
    /\ UNCHANGED <<smtpContainerPool, lockScope, clientVars, callVars,
                   concVars, typesVars>>

(* the test's cleanup: releaseSMTPContainerToPool(container) sends the
   container into the channel, whose capacity is the pool size *)
Release(t) ==
    /\ tests[t].pc = "holding"
    /\ Len(smtpContainerPool.available) < smtpContainerPool.maxSize
    /\ smtpContainerPool' =
         [smtpContainerPool EXCEPT
            !.available = Append(@, tests[t].container)]
    /\ tests' = Moved(t, "done", NoContainer, "")
    /\ UNCHANGED <<smtpPoolMu, lockScope, clientVars, callVars, concVars,
                   typesVars>>

NextPool ==
    \E t \in Tests :
        \/ EnterGet(t)
        \/ TryReceive(t)
        \/ ReserveSlot(t)
        \/ StartContainer(t)
        \/ StartFails(t)
        \/ WaitReceive(t)
        \/ WaitCancelled(t)
        \/ Release(t)

SpecPool == InitPool /\ [][NextPool]_vars

---------------------------------------------------------------------------
(* Properties *)

In2xx(status) == status >= 200 /\ status < 300

In4xx(status) == status >= 400 /\ status < 500

IsResponse(o) == o # NoOutcome /\ o.err = ""

(* the last call of HTTPClient.Do failed: transport error or non-2xx *)
LastFailed ==
    /\ lastOutcome # NoOutcome
    /\ (lastOutcome.err # "" \/ ~In2xx(lastOutcome.status))

(* C1: with MaxRetries = n >= 0 one makeRequest call invokes the transport
   at most n+1 times, and exactly n+1 times when every attempt ended in a
   transport error, a 5xx or a 429 and the context was never cancelled. *)
C1_AttemptsBound ==
    config.MaxRetries >= 0 =>
        /\ invocations <= config.MaxRetries + 1
        /\ (pc = "returned" /\ LastFailed /\ allRetryable /\ ~ctxDone)
              => invocations = config.MaxRetries + 1

C1_Witness ==
    /\ pc = "returned"
    /\ config.MaxRetries = 2
    /\ LastFailed /\ allRetryable /\ ~ctxDone
    /\ invocations = 3

(* C2: when attempt k is the first to receive a 2xx response and every
   earlier attempt ended in a transport error, a 5xx or a 429, makeRequest
   returns that response with a nil error after exactly k invocations of
   the transport and starts no further attempt. *)
C2_SuccessReturnedAtOnce ==
    (IsResponse(lastOutcome) /\ In2xx(lastOutcome.status) /\ priorRetryable) =>
        /\ pc \in {"returned", "done"}
        /\ result = [resp |-> lastOutcome, err |-> NoErr]
        /\ invocations = attempt + 1
        /\ Len(trace) = 2 * invocations - 1

C2_Witness ==
    /\ pc = "returned"
    /\ config.MaxRetries = 2
    /\ In2xx(result.resp.status) /\ result.err = NoErr
    /\ priorRetryable
    /\ lastErr # NoErr
    /\ invocations = 3

(* C3: a response with a status in [400,500) other than 429 ends the retry
   loop at once with an API error for that response, whatever MaxRetries
   is; a transport that always answers 404 is invoked exactly once. *)
C3_ClientErrorNotRetried ==
    (IsResponse(lastOutcome) /\ In4xx(lastOutcome.status)
        /\ lastOutcome.status # 429) =>
        /\ pc \in {"returned", "done"}
        /\ result.resp = NoResp
        /\ result.err.kind = "Error"
        /\ result.err.Type = "api"
        /\ result.err.StatusCode = lastOutcome.status
        /\ invocations = attempt + 1
        /\ (attempt = 0 => invocations = 1)

C3_Witness ==
    /\ pc = "returned"
    /\ config.MaxRetries = 2
    /\ IsResponse(lastOutcome) /\ lastOutcome.status = 404
    /\ invocations = 1

(* C4 as stated: an API-class failure (any non-2xx response) is followed
   by another attempt only when its status is 5xx or 429; for every other
   non-2xx status the call ends after that attempt with the API error. *)
C4_RetryOnly5xxOr429 ==
    (IsResponse(lastOutcome) /\ ~In2xx(lastOutcome.status)
        /\ ~(Is5xx(lastOutcome.status) \/ lastOutcome.status = 429)) =>
        /\ pc \notin {"suspended", "woken", "do"}
        /\ (pc \in {"returned", "done"} =>
               /\ result.err.Type = "api"
               /\ result.err.StatusCode = lastOutcome.status)

(* C4 amended: an API-class failure is followed by another attempt only
   when its status lies outside [400,500) or is 429 (a 3xx such as 304 is
   retried like a 5xx); for every status in [400,500) other than 429 the
   call ends after that attempt with the API error. *)
C4_RetryUnlessPlain4xx ==
    /\ (pc \in {"suspended", "woken", "do"} /\ IsResponse(lastOutcome)) =>
           (~In4xx(lastOutcome.status) \/ lastOutcome.status = 429)
    /\ (IsResponse(lastOutcome) /\ In4xx(lastOutcome.status)
           /\ lastOutcome.status # 429) =>
           /\ pc \in {"returned", "done"}
           /\ result = [resp |-> NoResp,
                        err |-> APIError(lastOutcome.status, lastOutcome.body)]

C4_Witness ==
    /\ pc = "do"
    /\ IsResponse(lastOutcome)
    /\ lastOutcome.status = 304
    /\ invocations = 2

(* C5: when all 1+MaxRetries attempts have failed, makeRequest returns a
   nil response and the error recorded by the last attempt: network-class
   for a transport failure, API-class with that attempt's status code and
   raw body for a non-2xx response; never the error of an earlier attempt. *)
C5_LastErrorReturned ==
    (pc = "returned" /\ config.MaxRetries >= 0 /\ LastFailed
        /\ invocations = config.MaxRetries + 1) =>
        /\ result.resp = NoResp
        /\ result.err.kind = "Error"
        /\ IF lastOutcome.err # ""
           THEN /\ result.err.Type = "network"
                /\ result.err.Cause = lastOutcome.err
           ELSE /\ result.err.Type = "api"
                /\ result.err.StatusCode = lastOutcome.status
                /\ result.err.Response = lastOutcome.body

C5_Witness ==
    /\ pc = "returned"
    /\ config.MaxRetries = 2
    /\ invocations = 3
    /\ lastOutcome = [err |-> "", status |-> 500, body |-> "e2"]
    /\ result.err = APIError(500, "e2")
    /\ allRetryable

(* an error that stems from the cancellation: ctx.Err() itself, or a
   *Error whose cause is the context's error *)
CancellationDerived(e) ==
    \/ e = CtxErr
    \/ (e.kind = "Error" /\ e.Cause = "ctx")

(* C6: whenever the context is cancelled while makeRequest is suspended, in
   the inter-retry delay or in the I/O wait of a transport that honours the
   context, makeRequest returns with a cancellation-derived error without
   any further delay and without any further attempt. *)
C6_CancelEndsCall ==
    (cancelledAt = "suspended"
        \/ (cancelledAt = "do" /\ config.HTTPClient.honoursCtx)) =>
        /\ invocations = invAtCancel
        /\ pc # "suspended"
        /\ (pc = "returned" =>
               /\ result.resp = NoResp
               /\ CancellationDerived(result.err))

(* C7: with MaxRetries > 0, when a transport call has failed and the
   context is cancelled during the inter-retry wait that follows,
   makeRequest returns ctx.Err(), not a network-class error, and the
   transport is not invoked again. *)
C7_CancelDuringWait ==
    cancelledAt = "suspended" =>
        /\ config.MaxRetries > 0
        /\ pc \in {"woken", "returned", "done"}
        /\ invocations = invAtCancel
        /\ (pc = "returned" => result = [resp |-> NoResp, err |-> CtxErr])
        /\ (pc = "done" => opErr = CtxErr)

C7_Witness ==
    /\ pc = "returned"
    /\ cancelledAt = "suspended"
    /\ attempt = 1
    /\ lastErr.Type = "network"
    /\ invocations = 1
    /\ result.err = CtxErr

(* C8: within one makeRequest call no delay precedes the first attempt,
   exactly one wait lies between every two consecutive attempts, and no
   wait follows the final attempt: the events alternate, starting with an
   attempt, and a call ends on a wait only when cancellation interrupted
   that wait. *)
C8_WaitsBetweenAttempts ==
    /\ \A i \in 1..Len(trace) :
          trace[i] = IF i % 2 = 1 THEN "attempt" ELSE "wait"
    /\ (pc \in {"returned", "done"} /\ Len(trace) > 0
           /\ trace[Len(trace)] = "wait") => result.err = CtxErr

C8_Witness ==
    /\ pc = "returned"
    /\ trace = <<"attempt", "wait", "attempt", "wait", "attempt">>
    /\ config.RetryDelay > 0
    /\ LastFailed

(* C9: every response makeRequest receives but does not return has its
   body released: before the next retry iteration begins, and in any case
   by the time makeRequest returns. *)
C9_BodiesReleased ==
    /\ pc \in {"suspended", "woken", "do"} => unclosed = 0
    /\ pc \in {"returned", "done"} => unclosed = 0

(* C10: an operation called with a required identifier empty (message id,
   part or attachment id, tag, query) or a required request body nil or
   empty returns a Validation-type error and invokes the transport zero
   times. *)
C10_EmptyRequiredRejected ==
    emptyRequired # {} =>
        /\ pc = "done"
        /\ opErr.kind = "Error"
        /\ opErr.Type = "validation"
        /\ invocations = 0
        /\ trace = <<>>

C10_Witness ==
    /\ pc = "done"
    /\ op = "SetMessageTags"
    /\ emptyRequired = {"body"}
    /\ opErr = NewValidationError("message IDs cannot be empty")

(* C11: on every attempt of every request at most one authentication
   scheme is applied: the Authorization header is Bearer <APIKey> whenever
   APIKey is non-empty, also when a username and password are set; it is
   HTTP Basic exactly when APIKey is empty and Username and Password are
   both non-empty; otherwise no Authorization header is sent. *)
C11_OneAuthScheme ==
    pc = "do" =>
        /\ config.APIKey # "" =>
               req.Authorization = <<"Bearer", config.APIKey>>
        /\ (req.Authorization # <<>> /\ req.Authorization[1] = "Basic") <=>
               (config.APIKey = "" /\ config.Username # ""
                   /\ config.Password # "")
        /\ (req.Authorization # <<>> /\ req.Authorization[1] = "Basic") =>
               req.Authorization = <<"Basic", config.Username,
                                     config.Password>>
        /\ (config.APIKey = ""
               /\ (config.Username = "" \/ config.Password = "")) =>
               req.Authorization = <<>>

C11_Witness ==
    /\ pc = "do"
    /\ invocations = 2
    /\ config.APIKey = "key"
    /\ config.Username = "user"
    /\ config.Password = "pass"
    /\ req.Authorization = <<"Bearer", "key">>

(* C12: operations may run concurrently on one client: under every
   interleaving each call's attempts and result depend only on its own
   context and the responses to its own requests, and no call changes the
   client or its Config.  A call makes at most MaxRetries+1 attempts; what
   it returns is the 2xx response to its own last request, or ctx.Err()
   of its own cancelled context, or the error of its own last failed
   attempt. *)
C12_CallsIndependent ==
    pc = "concurrent" =>
        /\ config = constructed.config
        /\ client = constructed.client
        /\ \A i \in CallIds :
              /\ calls[i].invocations <= config.MaxRetries + 1
              /\ calls[i].pc = "returned" =>
                    \/ /\ calls[i].result.err = NoErr
                       /\ calls[i].result.resp = calls[i].lastOutcome
                       /\ In2xx(calls[i].lastOutcome.status)
                    \/ /\ calls[i].result = [resp |-> NoResp, err |-> CtxErr]
                       /\ calls[i].ctxDone
                    \/ /\ calls[i].lastOutcome # NoOutcome
                       /\ calls[i].result =
                             [resp |-> NoResp,
                              err |-> ErrorOf(calls[i].lastOutcome)]

C12_Witness ==
    /\ pc = "concurrent"
    /\ calls[1].pc = "returned"
    /\ calls[1].invocations = 2
    /\ calls[1].result.err = NetworkError("io")
    /\ calls[2].pc = "returned"
    /\ calls[2].invocations = 2
    /\ calls[2].result.err = APIError(500, "e2")

(* the values a call reads from the client and its Config *)
UsedByCalls(cfg, cl) ==
    [APIKey |-> cfg.APIKey, Username |-> cfg.Username,
     Password |-> cfg.Password, MaxRetries |-> cfg.MaxRetries,
     RetryDelay |-> cfg.RetryDelay, HTTPClient |-> cfg.HTTPClient,
     userAgent |-> cl.userAgent, apiURL |-> cl.apiURL]

(* C13: the client's configuration is fixed once NewClient returns: the
   credentials, retry count, retry delay, user-agent, URL prefix and
   transport a later call uses are the values present at construction,
   whatever the caller wrote to the Config it passed in since then. *)
C13_ConfigFixed ==
    invocations > 0 =>
        UsedByCalls(config, client)
            = UsedByCalls(constructed.config, constructed.client)

(* C14: for every Config whose BaseURL is empty, NewClient returns a
   Config-type error and a nil client. *)
C14_EmptyBaseURLRejected ==
    (pc # "new" /\ ~given.isNil /\ given.value.BaseURL = "") =>
        /\ pc = "failed"
        /\ client = NilClient
        /\ newErr.kind = "Error"
        /\ newErr.Type = "config"

C14_Witness ==
    /\ pc = "failed"
    /\ ~given.isNil
    /\ given.value.BaseURL = ""
    /\ client.isNil
    /\ newErr = ConfigError("BaseURL is required", "")

(* the BaseURL NewClient worked with: DefaultConfig's for a nil argument *)
GivenBaseURL ==
    IF given.isNil THEN DefaultConfig.BaseURL ELSE given.value.BaseURL

(* an absolute URL: it parses, with a scheme and a host *)
IsAbsoluteURL(str) ==
    /\ str # ""
    /\ UrlParse(str).ok
    /\ UrlParse(str).Scheme # ""
    /\ UrlParse(str).Host # ""

(* C15: NewClient constructs a client only if BaseURL parses as a valid
   absolute URL (scheme and host present); for every other BaseURL it
   returns a Config-type error and no client. *)
C15_OnlyAbsoluteBaseURL ==
    pc # "new" =>
        IF IsAbsoluteURL(GivenBaseURL)
        THEN TRUE
        ELSE /\ client.isNil
             /\ newErr.kind = "Error"
             /\ newErr.Type = "config"

(* the argument's fields as the caller set them: none for a nil Config *)
GivenFields == IF given.isNil THEN ZeroConfig ELSE given.value

(* C16: every optional Config field left unset is replaced by its
   documented default in the client NewClient builds (API path prefix
   /api/v1, the versioned user-agent, a transport with a bounded timeout,
   timeout 30s, max retries 3, retry delay 1s), for a nil Config and for a
   Config that sets only BaseURL. *)
C16_DefaultsApplied ==
    (pc # "new" /\ ~client.isNil) =>
        /\ GivenFields.APIPath = "" =>
               /\ constructed.config.APIPath = DefaultAPIPath
               /\ client.apiURL = client.baseURL \o DefaultAPIPath
        /\ GivenFields.UserAgent = "" =>
               client.userAgent = DefaultUserAgent
        /\ GivenFields.HTTPClient.isNil =>
               /\ ~constructed.config.HTTPClient.isNil
               /\ constructed.config.HTTPClient.Timeout > 0
        /\ GivenFields.Timeout = 0 =>
               constructed.config.Timeout = DefaultTimeout
        /\ GivenFields.MaxRetries = 0 =>
               constructed.config.MaxRetries = DefaultMaxRetries
        /\ GivenFields.RetryDelay = 0 =>
               constructed.config.RetryDelay = DefaultRetryDelay

(* the operation decodes the response makeRequest returned into a value *)
ParsesResponse ==
    /\ op # ""
    /\ Operations[op].finish = "parse"
    /\ result.err = NoErr
    /\ result.resp # NoResp

(* C17: parseResponse on a response whose body is empty (read in full,
   zero bytes) returns nil and leaves the target value exactly as it was
   before the call. *)
C17_EmptyBodyIsSuccess ==
    (pc = "done" /\ ParsesResponse /\ result.resp.body = "empty"
        /\ opErr # ReadFailure) =>
        /\ opErr = NoErr
        /\ target = ZeroTarget

C17_Witness ==
    /\ pc = "done"
    /\ op = "GetMessage"
    /\ result.resp = [err |-> "", status |-> 200, body |-> "empty"]
    /\ opErr = NoErr
    /\ target = ZeroTarget
    /\ respClosed

(* C18: when a 2xx response body is non-empty and cannot be JSON-decoded
   into the target, the operation returns a Response-type error whose
   cause is the parse error, and the request is not sent again: the step
   that handles the decode failure ends the call and leaves the number of
   transport invocations as it was, whatever MaxRetries is. *)
C18_DecodeFailureNotRetried ==
    [][(pc = "returned" /\ ParsesResponse
          /\ result.resp.body \in {"garbage", "mismatch"}
          /\ opErr' # ReadFailure) =>
          /\ pc' = "done"
          /\ opErr'.kind = "Error"
          /\ opErr'.Type = "response"
          /\ opErr'.Cause # ""
          /\ opErr'.Cause = JSONUnmarshal(result.resp.body, target).err
          /\ invocations' = invocations
          /\ attempt' = attempt]_vars

C18_Witness ==
    /\ pc = "done"
    /\ op = "GetMessage"
    /\ config.MaxRetries = 2
    /\ result.resp = [err |-> "", status |-> 200, body |-> "mismatch"]
    /\ opErr = ParseFailure("type")
    /\ invocations = 1

(* C19: every operation that obtains a successful (2xx) response from
   makeRequest has released that response's body by the time it returns,
   on every path: decode success, decode failure, read failure, and the
   raw-content and no-content operations. *)
C19_ReturnedBodyClosed ==
    (pc = "done" /\ result.err = NoErr /\ result.resp # NoResp) =>
        /\ In2xx(result.resp.status)
        /\ respClosed

C19_Witness ==
    /\ pc = "done"
    /\ ParsesResponse
    /\ In2xx(result.resp.status)
    /\ opErr = ReadFailure
    /\ respClosed

(* C20: decoding an attachment-count field returns an error if and only
   if the input is not syntactically valid JSON; every valid JSON value,
   whatever its shape (array, number, null, object, string, boolean, an
   array with wrongly typed elements), decodes without error. *)
C20_ErrorIffInvalidJSON ==
    pc = "decoded" =>
        /\ (decodeErr # "") <=> (data.kind \in {"invalid", "truncated"})
        /\ data.kind \in {"array", "null", "int", "float", "string", "bool",
                          "object"} => decodeErr = ""

C20_Witness ==
    /\ pc = "decoded"
    /\ data = [kind |-> "array", elems |-> <<"att1", "bad">>]
    /\ decodeErr = ""
    /\ al = ListOf(<<>>)

(* C24: makeRequest never returns a nil response together with a nil
   error: for every configuration, MaxRetries < 0 included, a call ends
   with a non-nil response or with a non-nil error. *)
C24_ResponseOrError ==
    pc = "returned" => (result.resp # NoResp \/ result.err # NoErr)

(* C26 as stated: every non-nil error returned by a client operation is a
   classified *Error whose Type is one of the six kinds, the error
   returned when the caller's context is cancelled included. *)
C26_EveryErrorClassified ==
    (pc = "done" /\ opErr # NoErr) =>
        /\ opErr.kind = "Error"
        /\ opErr.Type \in ErrorTypes

(* C26 amended: every non-nil error returned by a client operation is a
   classified *Error of one of the six kinds, except when the caller's
   context is found cancelled in the wait before a retry: then the
   operation returns the plain ctx.Err(), which is not an *Error. *)
C26_ClassifiedOrContext ==
    (pc = "done" /\ opErr # NoErr) =>
        \/ /\ opErr.kind = "Error"
           /\ opErr.Type \in ErrorTypes
        \/ /\ opErr = CtxErr
           /\ ctxDone
           /\ Len(trace) > 0
           /\ trace[Len(trace)] = "wait"

C26_Witness ==
    /\ pc = "done"
    /\ opErr = CtxErr
    /\ lastErr.Type = "api"
    /\ invocations = 2

(* C27: once the caller's context is cancelled makeRequest starts no
   further transport attempt, for every RetryDelay, 0 included; when the
   context is cancelled before the call the transport is invoked zero
   times. *)
C27_NoAttemptAfterCancel ==
    ctxDone =>
        /\ invocations = invAtCancel
        /\ cancelledAt = "idle" => invocations = 0

(* C28: NewClient leaves the caller-supplied Config value unchanged: each
   field holds after the call the value it held before, whether
   construction succeeds or fails. *)
C28_ConfigUntouched ==
    (pc \in {"idle", "failed"} /\ ~given.isNil) =>
        constructed.config = given.value

(* the elements of the decoded array all decode into an Attachment *)
WellFormedArray ==
    /\ data.kind = "array"
    /\ \A i \in 1..Len(data.elems) : ElemDecodes(data.elems[i])

(* C21: decoding an attachment-count field yields, for a JSON array of
   well-formed attachment objects, a collection of the same length with
   the same elements in the same order and the fields mapped verbatim
   (the Size field prints back to the digits of the JSON number); for
   the literal null, a nil collection; for a JSON number, an empty
   non-nil collection. *)
C21_DecodedValue ==
    pc = "decoded" =>
        /\ WellFormedArray =>
            /\ ~al.isNil
            /\ Len(al.items) = Len(data.elems)
            /\ \A i \in 1..Len(data.elems) :
                /\ al.items[i].PartID = ElemJSON(data.elems[i]).PartID
                /\ al.items[i].FileName = ElemJSON(data.elems[i]).FileName
                /\ al.items[i].ContentType
                       = ElemJSON(data.elems[i]).ContentType
                /\ IF ElemJSON(data.elems[i]).Size = <<>>
                   THEN al.items[i].Size = 0
                   ELSE Itoa(al.items[i].Size) = ElemJSON(data.elems[i]).Size
        /\ data.kind = "null" => al.isNil
        /\ data.kind \in {"int", "float"} =>
            (~al.isNil /\ Len(al.items) = 0)

C21_Witness ==
    /\ pc = "decoded"
    /\ data = [kind |-> "array", elems |-> <<"att2", "att1">>]
    /\ Len(al.items) = 2
    /\ al.items[1].Size = 2048
    /\ al.items[2].FileName = "document.pdf"

(* the pairs a listing call sets: the options' fields that are set and,
   for SearchMessages, the query *)
PairsSet ==
    LET When(cond, key, value) ==
            IF cond THEN {<<(<<key>>), value>>} ELSE {}
    IN  When(~opts.isNil /\ opts.Start > 0, "start", Itoa(opts.Start))
        \cup When(~opts.isNil /\ opts.Limit > 0, "limit", Itoa(opts.Limit))
        \cup When(opts.Tag # <<>>, "tag", opts.Tag)
        \cup When(opts.Sort # <<>>, "sort", opts.Sort)
        \cup When(opts.Query # <<>>, "query", opts.Query)
        \cup When(opts.kind = "SearchOptions", "query", query)

(* the pairs url.ParseQuery found *)
PairsParsed == {parsed.pairs[i] : i \in 1..Len(parsed.pairs)}

(* C22: for every ListOptions and SearchOptions value, a nil pointer
   included, the encoded parameters contain the key start exactly when
   Start > 0 and the key limit exactly when Limit > 0, each with the
   decimal string of its value; zero and negative values are never
   serialized. *)
C22_StartLimitIffPositive ==
    pc = "converted" =>
        /\ "start" \in DOMAIN values <=> (~opts.isNil /\ opts.Start > 0)
        /\ "limit" \in DOMAIN values <=> (~opts.isNil /\ opts.Limit > 0)
        /\ "start" \in DOMAIN values =>
            /\ IsIntLiteral(values["start"])
            /\ values["start"][1] # "0"
            /\ Atoi(values["start"]) = opts.Start
        /\ "limit" \in DOMAIN values =>
            /\ IsIntLiteral(values["limit"])
            /\ values["limit"][1] # "0"
            /\ Atoi(values["limit"]) = opts.Limit

C22_Witness ==
    /\ pc = "converted"
    /\ opts.kind = "SearchOptions"
    /\ opts.Start = 25
    /\ opts.Limit = 0 - 1
    /\ DOMAIN values = {"start"}
    /\ values["start"] = <<"2", "5">>

(* C23: for ListMessages and SearchMessages the query string of the
   request URL is encoded so that parsing it yields exactly the pairs
   that were set (query, tag, sort, start, limit), each value verbatim,
   for every string value of query, tag and sort. *)
C23_QueryRoundTrip ==
    pc = "parsed" =>
        /\ ~parsed.err
        /\ PairsParsed = PairsSet
        /\ Len(parsed.pairs) = Cardinality(PairsSet)

(* the tests that hold a container handed to them and not yet released *)
Holders == {t \in DOMAIN tests : tests[t].pc = "holding"}

(* C29: under every interleaving of acquisitions, releases and failed
   container starts the pool's created counter never exceeds maxSize, so
   at most maxSize containers exist at any time. *)
C29_CreatedWithinMaxSize ==
    ~smtpContainerPool.isNil =>
        /\ smtpContainerPool.created <= smtpContainerPool.maxSize
        /\ Len(smtpContainerPool.containers) <= smtpContainerPool.created

C29_Witness ==
    /\ pc = "pool"
    /\ smtpContainerPool.maxSize = 2
    /\ smtpContainerPool.created = 2
    /\ Len(smtpContainerPool.containers) = 1
    /\ \E t \in Tests : tests[t].pc = "failed"
    /\ \E t \in Tests : tests[t].pc = "start"

(* C30: a pooled container is held by at most one test at a time: from
   the moment getSMTPContainerFromPool hands it to a caller until that
   caller's cleanup releases it, no other caller receives it and it is
   not in the channel of available containers. *)
C30_HeldByOne ==
    \A t \in Holders :
        /\ tests[t].container # NoContainer
        /\ \A u \in Holders : u # t => tests[u].container # tests[t].container
        /\ \A i \in 1..Len(smtpContainerPool.available) :
              smtpContainerPool.available[i] # tests[t].container

C30_Witness ==
    /\ pc = "pool"
    /\ Cardinality(Holders) = 2
    /\ \E t \in Holders : tests[t].via = "wait"
    /\ \E t \in Holders : tests[t].via = "try"

(* C25: when a request that carries a body is retried, every attempt
   transmits the same body bytes as the first attempt; a retry never
   sends an empty or truncated body. *)
C25_RetrySendsSameBody ==
    (pc = "do" /\ CarriesBody(op) /\ invocations > 1) =>
        req.body = ReqBodyLen

====
